---- MODULE Spec2Model ----
(***************************************************************************)
(* pg2mysql: the schema model, the compatibility validator and the        *)
(* incremental migrator, as one sequential state machine per operation.   *)
(*                                                                         *)
(* A store (source or destination) is a function from table names to     *)
(* [pk, Columns, rows]; a row is a tuple of cells, one per column; a cell *)
(* is [kind, val] with kind "null", "text" or "time".  A text cell's val  *)
(* identifies the string of that many characters, a time cell's val is a  *)
(* number of milliseconds.                                                 *)
(***************************************************************************)
EXTENDS Integers, Sequences, FiniteSets, TLC

\* ------------------------------------------------------------ bounds
\* Primary-key values of table "a" are the texts 1..MaxKey.
MaxKey == 3
\* Table "b" of the source holds at most MaxRows rows.
MaxRows == 2
\* Column widths compared by the column rule range over 0..MaxWidth.
MaxWidth == 10

\* ------------------------------------------------------------ values
\* time.Second, in the milliseconds a time cell counts.
Second == 1000

Null == [kind |-> "null", val |-> 0]

Text(n) == [kind |-> "text", val |-> n]

Time(ms) == [kind |-> "time", val |-> ms]

\* t1.Truncate(d): t1 rounded down to a multiple of d.
Truncate(t, d) == t - (t % d)

\* The arguments handed to the existence check and to the insert: every
\* time.Time value replaced by its truncation to whole seconds.
TruncateArgs(row) ==
    [i \in DOMAIN row |->
        IF row[i].kind = "time" THEN Time(Truncate(row[i].val, Second))
        ELSE row[i]]

\* The plain SQL "=": a comparison with NULL is never true.
PlainEq(a, b) ==
    IF a.kind = "null" \/ b.kind = "null" THEN FALSE ELSE a.val = b.val

\* MySQL's "<=>": NULL matches NULL, and only NULL.
NullSafeEq(a, b) ==
    IF a.kind = "null" \/ b.kind = "null" THEN a.kind = b.kind
    ELSE a.val = b.val

ExistsAnyColumn(rows, args) ==
    \E j \in DOMAIN rows :
        \E i \in DOMAIN args : NullSafeEq(rows[j][i], args[i])

\* SELECT EXISTS (SELECT 1 FROM t WHERE c1 <=> ? AND c2 <=> ? ...)
Exists(rows, args) ==
    \E j \in DOMAIN rows :
        \A i \in DOMAIN args : NullSafeEq(rows[j][i], args[i])

\* LENGTH(col::text): the number of characters of the cell's text, -1 for
\* NULL (whose length is NULL, so that no comparison with it is true).
TextLen(cell) ==
    CASE cell.kind = "null" -> -1
      [] cell.kind = "text" -> cell.val
      [] OTHER -> IF cell.val % Second = 0 THEN 19 ELSE 23

\* ------------------------------------------------------------ schema
TableNames == {"a", "b"}

Column(name, maxChars) == [Name |-> name, MaxChars |-> maxChars]

CompatibleInverted(c, other) ==
    IF c.MaxChars = 0 /\ other.MaxChars = 0 THEN TRUE
    ELSE IF c.MaxChars > 0 /\ other.MaxChars > 0
         THEN c.MaxChars >= other.MaxChars
         ELSE FALSE

\* (c *Column) Compatible(other)
Compatible(c, other) ==
    IF c.MaxChars = 0 /\ other.MaxChars = 0 THEN TRUE
    ELSE IF c.MaxChars > 0 /\ other.MaxChars > 0
         THEN c.MaxChars < other.MaxChars
         ELSE FALSE

\* (c *Column) Incompatible(other)
Incompatible(c, other) == ~Compatible(c, other)

\* (t *Table) GetColumn(name): the index of the column named name, 0 when
\* the table has none (the code's error).
GetColumn(table, name) ==
    IF \E i \in DOMAIN table.Columns : table.Columns[i].Name = name
    THEN CHOOSE i \in DOMAIN table.Columns :
            /\ table.Columns[i].Name = name
            /\ \A j \in 1..(i - 1) : table.Columns[j].Name # name
    ELSE 0

IgnoresNothing(table, tables) == FALSE

\* ignoreTable(table, tables)
ignoreTable(table, tables) == table \in tables

\* (p *postgreSQLDB) GetPrimaryKey(tableName): the name, "" for a table
\* without a primary key (sql.ErrNoRows), and the error of a failed lookup.
PgGetPrimaryKey(store, t, lookupFails) ==
    IF lookupFails THEN [name |-> "", err |-> "lookup failed"]
    ELSE [name |-> store[t].pk, err |-> "nil"]

\* (p *postgreSQLDB) HasPrimaryKey(tableName)
PgHasPrimaryKey(store, t, lookupFails) ==
    LET k == PgGetPrimaryKey(store, t, lookupFails)
    IN  IF k.err # "nil" THEN [has |-> FALSE, err |-> k.err]
        ELSE [has |-> k.name # "", err |-> "nil"]

\* (m *mySQLDB) GetPrimaryKey(tableName): the name, and an error both for
\* a failed lookup and for a table without a primary key (sql.ErrNoRows).
MyGetPrimaryKey(store, t, failed) ==
    IF failed THEN [name |-> "", err |-> "lookup failed"]
    ELSE IF store[t].pk = "" THEN [name |-> "", err |-> "table has no primary key"]
    ELSE [name |-> store[t].pk, err |-> "nil"]

\* (m *mySQLDB) HasPrimaryKey(tableName)
MyHasPrimaryKey(store, t, failed) ==
    LET k == MyGetPrimaryKey(store, t, failed)
    IN  IF k.err # "nil" THEN [has |-> FALSE, err |-> k.err]
        ELSE [has |-> k.name # "", err |-> "nil"]

\* ------------------------------------------------------------ state
VARIABLES
    op,               \* the operation the caller runs
    src,              \* the source store (PostgreSQL)
    dst,              \* the destination store (MySQL)
    config,           \* MigrationConfig
    truncateFirst,    \* migrator.truncateFirst
    pc,               \* where the running operation stands
    run,              \* 1 in the first Migrate of the pair, 2 in the second
    todo,             \* tables the range over srcSchema.Tables has yet to visit
    cur,              \* table of the current loop iteration
    rows,             \* rows the source query of the current table returns
    cursor,           \* index in rows of the next rows.Next()
    dstIDs,           \* migrateWithPrimaryKeys' dstIDs
    recordsInserted,  \* Migrate's recordsInserted
    err,              \* Migrate's function-scope err, which the defer assigns
    ret,              \* the value the operation returned ("none" before)
    trace,            \* watcher events and destination statements, in order
    dst0,             \* the destination as the current table's migration started
    first,            \* what the first Migrate of a pair left behind
    results,          \* Validate's results
    out,              \* the results Validate returned
    c,                \* receiver of Compatible
    other,            \* argument of Compatible
    compat,           \* what Compatible and Incompatible returned
    adapter,          \* the store adapter a primary-key lookup is made on
    lookupFails,      \* the lookup's catalog query fails
    lookup            \* what GetPrimaryKey and HasPrimaryKey returned

inputVars == <<op, src, config, truncateFirst>>

columnVars == <<c, other, compat>>

lookupVars == <<adapter, lookupFails, lookup>>

vars == <<op, src, dst, config, truncateFirst, pc, run, todo, cur, rows, cursor,
          dstIDs, recordsInserted, err, ret, trace, dst0, first, results,
          out, c, other, compat, adapter, lookupFails, lookup>>

\* No primary-key lookup is under examination.
NoLookup == adapter = "" /\ lookupFails = FALSE /\ lookup = <<>>

\* One entry of trace: a watcher event, or a statement the destination
\* answered, with n = 1 when it succeeded and n = 0 when it failed; an
\* "Exists" entry is an answered existence check, n = 1 when the row exists;
\* TableMigrationDidFinish carries rowsInserted in n.
Ev(e, t, r, n) == [ev |-> e, table |-> t, row |-> r, n |-> n]

WatcherEv(e) == Ev(e, "", <<>>, 0)

TableEv(e, t) == Ev(e, t, <<>>, 0)

\* ------------------------------------------------------------ inputs
TableA(rs, w) ==
    [pk |-> "id", Columns |-> <<Column("id", w[1]), Column("v", w[2])>>, rows |-> rs]

TableB(rs, w) ==
    [pk |-> "", Columns |-> <<Column("v", w[1]), Column("at", w[2])>>, rows |-> rs]

Store(ta, tb) == [t \in TableNames |-> IF t = "a" THEN ta ELSE tb]

RECURSIVE SeqOfSet(_)
\* The numbers of S in increasing order.
SeqOfSet(S) ==
    IF S = {} THEN <<>>
    ELSE LET m == CHOOSE x \in S : \A y \in S : x <= y
         IN  <<m>> \o SeqOfSet(S \ {m})

\* Source rows of table "a": keys 1..n, every v the text 1.
SrcRowsA(n) == [k \in 1..n |-> <<Text(k), Text(1)>>]

\* Destination rows of table "a": the keys of D, every v the text 2, so a
\* row of the destination differs from the source row of the same key.
DstRowsA(D) == LET ks == SeqOfSet(D) IN [i \in DOMAIN ks |-> <<Text(ks[i]), Text(2)>>]

\* Rows of table "b": v is NULL or a text, at is a time with or without a
\* sub-second part.
RowsB == {<<v, Time(t)>> : v \in {Null, Text(1)}, t \in {Second, Second + 500}}

IsWholeSecond(row) == TruncateArgs(row) = row

SrcRowsB == UNION {[1..n -> RowsB] : n \in 0..MaxRows}

DstRowsB == {<<>>} \cup {<<r>> : r \in {x \in RowsB : IsWholeSecond(x)}}

NoWidths == <<0, 0>>

\* Stores Migrate runs on: one table varies, the other holds one source row.
MigrateInputs ==
    {[src |-> Store(TableA(SrcRowsA(n), NoWidths),
                    TableB(<<<<Null, Time(Second + 500)>>>>, NoWidths)),
      dst |-> Store(TableA(DstRowsA(D), NoWidths), TableB(<<>>, NoWidths))]
        : n \in 0..MaxKey, D \in SUBSET (1..MaxKey)}
    \cup
    {[src |-> Store(TableA(SrcRowsA(1), NoWidths), TableB(sb, NoWidths)),
      dst |-> Store(TableA(<<>>, NoWidths), TableB(db, NoWidths))]
        : sb \in SrcRowsB, db \in DstRowsB}

Idle ==
    /\ run = 1
    /\ todo = {}
    /\ cur = ""
    /\ rows = <<>>
    /\ cursor = 1
    /\ dstIDs = <<>>
    /\ recordsInserted = 0
    /\ err = "nil"
    /\ ret = "none"
    /\ trace = <<>>
    /\ first = [ran |-> FALSE, dst |-> dst, insertFailed |-> FALSE]
    /\ results = <<>>
    /\ out = <<>>

InitMigrate ==
    /\ op = "Migrate"
    /\ \E in \in MigrateInputs : src = in.src /\ dst = in.dst
    /\ config \in [IgnoreTables : SUBSET TableNames]
    /\ truncateFirst \in BOOLEAN
    /\ pc = "start"
    /\ dst0 = dst
    /\ Idle
    /\ c = Column("", 0) /\ other = Column("", 0) /\ compat = <<>>
    /\ NoLookup

\* ------------------------------------------------------------ Migrate
\* The error Migrate returns when a step of a table's iteration fails.
StepError(o) ==
    CASE o = "truncate" -> "failed truncating"
      [] o = "prepare" -> "failed creating prepared statement"
      [] o = "haspk" -> "failed to get primary key from source table"
      [] o \in {"getpk", "dstquery", "srcquery"} ->
            "failed migrating table with ids"
      [] OTHER -> "failed migrating table without ids"

\* The error Migrate returns when the row loop of table t fails.
RowError(t) ==
    IF src[t].pk # "" THEN "failed migrating table with ids"
    ELSE "failed migrating table without ids"

CleanupOnSuccessOnly(failed) == IF failed THEN "done" ELSE "deferred"

\* Where Migrate stands after a return statement below the defer: the
\* deferred function runs on every such return.
AfterReturn(failed) == "deferred"

\* Migrate up to the registration of the defer: BuildSchema, then
\* DisableConstraints between its two watcher events.
MigrateStart ==
    /\ op = "Migrate"
    /\ pc = "start"
    /\ \E o \in {"ok", "schema", "disable"} :
        /\ trace' = trace \o
              (CASE o = "schema" -> <<>>
                 [] o = "disable" -> <<WatcherEv("WillDisableConstraints"),
                                       Ev("DisableConstraints", "", <<>>, 0)>>
                 [] OTHER -> <<WatcherEv("WillDisableConstraints"),
                               Ev("DisableConstraints", "", <<>>, 1),
                               WatcherEv("DidDisableConstraints")>>)
        /\ ret' = (CASE o = "schema" -> "failed to build source schema"
                     [] o = "disable" -> "failed to disable constraints"
                     [] OTHER -> "none")
        /\ err' = (IF o = "ok" THEN "nil" ELSE ret')
        /\ pc' = (IF o = "ok" THEN "tables" ELSE "done")
        /\ todo' = (IF o = "ok" THEN DOMAIN src ELSE {})
    /\ UNCHANGED <<inputVars, columnVars, lookupVars, dst, run, cur, rows, cursor, dstIDs,
                   recordsInserted, dst0, first, results, out>>

\* The loop's "continue" for a table of the ignore list.
SkipIgnored(t) ==
    /\ op = "Migrate"
    /\ pc = "tables"
    /\ t \in todo
    /\ ignoreTable(t, config.IgnoreTables)
    /\ todo' = todo \ {t}
    /\ UNCHANGED <<inputVars, columnVars, lookupVars, dst, pc, run, cur, rows, cursor, dstIDs,
                   recordsInserted, err, ret, trace, dst0, first, results, out>>

\* The outcomes of one table's steps before its row loop: "ok", or the step
\* that fails.
TableOutcomes(t) ==
    {"ok", "prepare", "haspk"}
    \cup (IF truncateFirst THEN {"truncate"} ELSE {})
    \cup (IF src[t].pk # "" THEN {"getpk", "dstquery", "srcquery"}
          ELSE {"selectrows", "existsprepare"})

\* SELECT pk FROM dst table: the primary-key cell of every destination row.
SelectIDs(store, t, pk) ==
    LET i == GetColumn(store[t], pk)
    IN  [j \in DOMAIN store[t].rows |-> store[t].rows[j][i]]

SelectEveryRow(store, t, pk, ids) == store[t].rows

\* SELECT cols FROM src table WHERE pk NOT IN (ids)
SelectNotIn(store, t, pk, ids) ==
    LET i == GetColumn(store[t], pk)
        In(row) == \E j \in DOMAIN ids : PlainEq(row[i], ids[j])
    IN  SelectSeq(store[t].rows, LAMBDA row : ~In(row))

\* A table loop that announced the table's migration before truncating it.
StartBeforeTruncate(t, truncates, truncated, started) ==
    (IF started THEN <<TableEv("TableMigrationDidStart", t)>> ELSE <<>>)
    \o (IF truncates
        THEN <<TableEv("WillTruncateTable", t),
               Ev("Truncate", t, <<>>, IF truncated THEN 1 ELSE 0)>>
        ELSE <<>>)
    \o (IF truncated THEN <<TableEv("TruncateTableDidFinish", t)>> ELSE <<>>)

\* What the loop body emits up to the strategy choice: with truncate-first
\* WillTruncateTable, the TRUNCATE and, when it succeeded,
\* TruncateTableDidFinish; then, once the insert statement is prepared,
\* TableMigrationDidStart.
TableStartEvents(t, truncates, truncated, started) ==
    (IF truncates
     THEN <<TableEv("WillTruncateTable", t),
            Ev("Truncate", t, <<>>, IF truncated THEN 1 ELSE 0)>>
     ELSE <<>>)
    \o (IF truncated THEN <<TableEv("TruncateTableDidFinish", t)>> ELSE <<>>)
    \o (IF started THEN <<TableEv("TableMigrationDidStart", t)>> ELSE <<>>)

\* One iteration of the table loop for a table that is not ignored, up to
\* the first rows.Next() of the table's source rows: the truncate, the
\* prepared insert, TableMigrationDidStart, the strategy and its queries.
TableStart(t) ==
    /\ op = "Migrate"
    /\ pc = "tables"
    /\ t \in todo
    /\ ~ignoreTable(t, config.IgnoreTables)
    /\ \E o \in TableOutcomes(t) :
        LET truncated == truncateFirst /\ o # "truncate"
            started == o \notin {"truncate", "prepare"}
            hasKey == PgHasPrimaryKey(src, t, o = "haspk")
            key == PgGetPrimaryKey(src, t, o = "getpk")
            d == IF truncated THEN [dst EXCEPT ![t].rows = <<>>] ELSE dst
            ids == IF hasKey.has THEN SelectIDs(d, t, key.name) ELSE <<>>
        IN  /\ dst' = d
            /\ trace' = trace \o TableStartEvents(t, truncateFirst, truncated, started)
            /\ cur' = t
            /\ recordsInserted' = 0
            /\ dst0' = d
            /\ IF o = "ok"
               THEN /\ pc' = "rows"
                    /\ dstIDs' = ids
                    /\ rows' = IF hasKey.has
                               THEN SelectNotIn(src, t, key.name, ids)
                               ELSE src[t].rows
                    /\ cursor' = 1
                    /\ UNCHANGED ret
               ELSE /\ pc' = AfterReturn(TRUE)
                    /\ ret' = StepError(o)
                    /\ UNCHANGED <<dstIDs, rows, cursor>>
    /\ UNCHANGED <<inputVars, columnVars, lookupVars, run, todo, err, first, results, out>>

\* insert(stmt, values): "nil", or the error of an Exec that failed or that
\* affected no row.
insert(o) ==
    CASE o = "execError" -> "failed to exec stmt"
      [] o = "zeroRows" -> "no rows affected by insert"
      [] OTHER -> "nil"

CountEveryInsert(n, insertErr) == n + 1

\* recordsInserted after one insert: counted unless the insert failed.
CountInsert(n, insertErr) == IF insertErr = "nil" THEN n + 1 ELSE n

NoTruncation(row) == row

\* The arguments of the existence check and of the insert for a scanned row
\* of the strategy without primary key.
ScanArgs(row) == TruncateArgs(row)

\* One iteration of the row loop of the current table: rows.Scan, then (no
\* primary key) the truncation of times and the existence check, then the
\* insert of a row to migrate.
RowStep ==
    /\ op = "Migrate"
    /\ pc = "rows"
    /\ cursor <= Len(rows)
    /\ LET keyed == src[cur].pk # ""
           args == IF keyed THEN rows[cursor] ELSE ScanArgs(rows[cursor])
           missing == keyed \/ ~Exists(dst[cur].rows, args)
           checked == IF keyed THEN <<>>
                      ELSE <<Ev("Exists", cur, args, IF missing THEN 0 ELSE 1)>>
       IN  \E o \in {"ok", "execError", "zeroRows", "scan", "exists"} :
            /\ o = "exists" => ~keyed
            /\ o \in {"execError", "zeroRows"} => missing
            /\ IF o \in {"scan", "exists"}
               THEN /\ pc' = AfterReturn(TRUE)
                    /\ ret' = RowError(cur)
                    /\ UNCHANGED <<dst, trace, recordsInserted, cursor>>
               ELSE /\ cursor' = cursor + 1
                    /\ UNCHANGED <<pc, ret>>
                    /\ IF missing
                       THEN /\ trace' = trace \o checked \o
                                  <<Ev("Insert", cur, args, IF o = "ok" THEN 1 ELSE 0)>>
                            /\ dst' = IF o = "ok"
                                      THEN [dst EXCEPT ![cur].rows = Append(@, args)]
                                      ELSE dst
                            /\ recordsInserted' = CountInsert(recordsInserted, insert(o))
                       ELSE /\ trace' = trace \o checked
                            /\ UNCHANGED <<dst, recordsInserted>>
    /\ UNCHANGED <<inputVars, columnVars, lookupVars, run, todo, cur, rows, dstIDs, err,
                   dst0, first, results, out>>

\* The end of the row loop: rows.Next() returned false, after the last row
\* or before it because the iteration failed; then rows.Err(), rows.Close()
\* and, when both are nil, TableMigrationDidFinish.
RowsEnd ==
    /\ op = "Migrate"
    /\ pc = "rows"
    /\ \E o \in {"ok", "rows", "close"} :
        /\ o # "rows" => cursor > Len(rows)
        /\ IF o = "ok"
           THEN /\ trace' = Append(trace,
                      Ev("TableMigrationDidFinish", cur, <<>>, recordsInserted))
                /\ todo' = todo \ {cur}
                /\ pc' = "tables"
                /\ UNCHANGED ret
           ELSE /\ pc' = AfterReturn(TRUE)
                /\ ret' = RowError(cur)
                /\ UNCHANGED <<trace, todo>>
    /\ UNCHANGED <<inputVars, columnVars, lookupVars, dst, run, cur, rows, cursor, dstIDs,
                   recordsInserted, err, dst0, first, results, out>>

\* "return nil" once the range over the tables is exhausted.
MigrateReturn ==
    /\ op = "Migrate"
    /\ pc = "tables"
    /\ todo = {}
    /\ ret' = "nil"
    /\ pc' = AfterReturn(FALSE)
    /\ UNCHANGED <<inputVars, columnVars, lookupVars, dst, run, todo, cur, rows, cursor,
                   dstIDs, recordsInserted, err, trace, dst0, first, results, out>>

NamedResult(returned, deferErr) == deferErr

\* What the caller receives: Migrate's result is unnamed, so the value of
\* the return statement stands whatever the deferred function assigns to err.
ResultAfterDefer(returned, deferErr) == returned

\* The deferred function: EnableConstraints between its watcher events.
Deferred ==
    /\ op = "Migrate"
    /\ pc = "deferred"
    /\ \E o \in {"ok", "fail"} :
        /\ err' = (IF o = "ok" THEN "nil" ELSE "enable failed")
        /\ trace' = trace \o
              <<WatcherEv("WillEnableConstraints"),
                Ev("EnableConstraints", "", <<>>, IF o = "ok" THEN 1 ELSE 0),
                WatcherEv(IF o = "ok" THEN "EnableConstraintsDidFinish"
                          ELSE "EnableConstraintsDidFailWithError")>>
        /\ ret' = ResultAfterDefer(ret, err')
    /\ pc' = "done"
    /\ UNCHANGED <<inputVars, columnVars, lookupVars, dst, run, todo, cur, rows, cursor,
                   dstIDs, recordsInserted, dst0, first, results, out>>

\* The caller runs Migrate a second time on the same stores, after a first
\* run that returned no error.
Rerun ==
    /\ op = "Migrate"
    /\ pc = "done"
    /\ run = 1
    /\ ret = "nil"
    /\ run' = 2
    /\ first' = [ran |-> TRUE, dst |-> dst,
                 insertFailed |-> \E i \in DOMAIN trace :
                                     trace[i].ev = "Insert" /\ trace[i].n = 0]
    /\ pc' = "start"
    /\ ret' = "none"
    /\ err' = "nil"
    /\ trace' = <<>>
    /\ todo' = {}
    /\ cur' = ""
    /\ rows' = <<>>
    /\ cursor' = 1
    /\ dstIDs' = <<>>
    /\ recordsInserted' = 0
    /\ dst0' = dst
    /\ UNCHANGED <<inputVars, columnVars, lookupVars, dst, results, out>>

NextMigrate ==
    \/ MigrateStart
    \/ \E t \in TableNames : SkipIgnored(t)
    \/ \E t \in TableNames : TableStart(t)
    \/ RowStep
    \/ RowsEnd
    \/ MigrateReturn
    \/ Deferred

\* ------------------------------------------------------------ Validate
\* GetIncompatibleColumns(src, dst): the destination columns incompatible
\* with their source counterparts, or the error of a destination column the
\* source table lacks.
GetIncompatibleColumns(srcT, dstT) ==
    IF \E i \in DOMAIN dstT.Columns : GetColumn(srcT, dstT.Columns[i].Name) = 0
    THEN [columns |-> <<>>, err |-> "failed to find column in source schema"]
    ELSE [columns |-> SelectSeq(dstT.Columns,
                        LAMBDA dc : Incompatible(dc, srcT.Columns[GetColumn(srcT, dc.Name)])),
          err |-> "nil"]

\* The source rows selected by WHERE LENGTH(column::text) > column.MaxChars.
Violations(srcT, column) ==
    SelectSeq(srcT.rows,
              LAMBDA r : TextLen(r[GetColumn(srcT, column.Name)]) > column.MaxChars)

\* Metadata that reported the column's declared width as its MaxChars.
DeclaredWidth(srcT, column) == column.MaxChars

\* SELECT MAX(LENGTH(column::text)) FROM the source table.
MaxTextLen(srcT, column) ==
    LET lens == {TextLen(srcT.rows[j][GetColumn(srcT, column.Name)]) : j \in DOMAIN srcT.rows}
    IN  CHOOSE m \in lens : \A l \in lens : l <= m

\* columnNamesAndMax: one entry per incompatible column with a violating row.
ColumnMetadata(srcT, columns) ==
    LET hit == SelectSeq(columns, LAMBDA col : Len(Violations(srcT, col)) > 0)
    IN  [j \in DOMAIN hit |->
            [ColumnName |-> hit[j].Name, MaxChars |-> MaxTextLen(srcT, hit[j])]]

RECURSIVE RowIDs(_, _, _)
\* rowIDs: column after column, the primary-key text of every violating row.
RowIDs(srcT, primaryKey, columns) ==
    IF columns = <<>> THEN <<>>
    ELSE LET v == Violations(srcT, Head(columns))
             k == GetColumn(srcT, primaryKey)
         IN  [j \in DOMAIN v |-> v[j][k].val] \o RowIDs(srcT, primaryKey, Tail(columns))

\* A count of the rows that violate in some column, each row once.
RowCountDistinct(srcT, columns) ==
    Cardinality({j \in DOMAIN srcT.rows :
        \E i \in DOMAIN columns :
            TextLen(srcT.rows[j][GetColumn(srcT, columns[i].Name)]) > columns[i].MaxChars})

RECURSIVE RowCount(_, _)
\* count: the sum over the columns of SELECT count(1) ... WHERE length > max.
RowCount(srcT, columns) ==
    IF columns = <<>> THEN 0
    ELSE Len(Violations(srcT, Head(columns))) + RowCount(srcT, Tail(columns))

\* GetIncompatibleRowIDsAndColumns(db, src, dst), o the query that fails.
GetIncompatibleRowIDsAndColumns(store, srcT, dstT, t, o) ==
    LET key == PgGetPrimaryKey(store, t, o = "getpk")
        inc == GetIncompatibleColumns(srcT, dstT)
    IN  IF key.err # "nil" THEN [rowIDs |-> <<>>, meta |-> <<>>, err |-> key.err]
        ELSE IF inc.err # "nil"
        THEN [rowIDs |-> <<>>, meta |-> <<>>, err |-> "failed getting incompatible columns"]
        ELSE IF o # "ok"
        THEN [rowIDs |-> <<>>, meta |-> <<>>, err |-> "failed getting incompatible row ids"]
        ELSE [rowIDs |-> RowIDs(srcT, key.name, inc.columns),
              meta |-> ColumnMetadata(srcT, inc.columns), err |-> "nil"]

\* GetIncompatibleRowCount(db, src, dst), o the query that fails.
GetIncompatibleRowCount(srcT, dstT, o) ==
    LET inc == GetIncompatibleColumns(srcT, dstT)
    IN  IF inc.err # "nil"
        THEN [count |-> 0, meta |-> <<>>, err |-> "failed getting incompatible columns"]
        ELSE IF o # "ok"
        THEN [count |-> 0, meta |-> <<>>, err |-> "query failed"]
        ELSE [count |-> RowCount(srcT, inc.columns),
              meta |-> ColumnMetadata(srcT, inc.columns), err |-> "nil"]

\* A Validate that returned the results gathered before the failure.
PartialResults(gathered) == gathered

\* "return nil, fmt.Errorf(...)": what Validate returns beside an error.
ResultsOnError(gathered) == <<>>

\* The two BuildSchema calls of Validate.
ValidateStart ==
    /\ op = "Validate"
    /\ pc = "start"
    /\ \E o \in {"ok", "srcschema", "dstschema"} :
        /\ ret' = (CASE o = "srcschema" -> "failed to build source schema"
                     [] o = "dstschema" -> "failed to build destination schema"
                     [] OTHER -> "none")
        /\ pc' = (IF o = "ok" THEN "tables" ELSE "done")
        /\ todo' = (IF o = "ok" THEN DOMAIN src ELSE {})
    /\ UNCHANGED <<inputVars, columnVars, lookupVars, dst, run, cur, rows, cursor, dstIDs,
                   recordsInserted, err, trace, dst0, first, results, out>>

\* The loop's "continue" for a table of the ignore list.
ValidateSkipIgnored(t) ==
    /\ op = "Validate"
    /\ pc = "tables"
    /\ t \in todo
    /\ ignoreTable(t, config.IgnoreTables)
    /\ todo' = todo \ {t}
    /\ UNCHANGED <<inputVars, columnVars, lookupVars, dst, pc, run, cur, rows, cursor, dstIDs,
                   recordsInserted, err, ret, trace, dst0, first, results, out>>

\* The queries of one table's validation that can fail: the primary-key
\* lookups always, the row queries when a column is incompatible, the
\* MAX(LENGTH) query when a row violates.
ValidateOutcomes(t) ==
    LET inc == GetIncompatibleColumns(src[t], dst[t])
    IN  {"ok", "haspk"}
        \cup (IF src[t].pk # "" THEN {"getpk"} ELSE {})
        \cup (IF inc.columns # <<>> THEN {"query"} ELSE {})
        \cup (IF RowCount(src[t], inc.columns) > 0 THEN {"maxchars"} ELSE {})

\* One iteration of Validate's loop for a table that is not ignored.
ValidateTable(t) ==
    /\ op = "Validate"
    /\ pc = "tables"
    /\ t \in todo
    /\ ~ignoreTable(t, config.IgnoreTables)
    /\ cur' = t
    /\ IF t \notin DOMAIN dst
       THEN /\ ret' = "failed to get table from destination schema"
            /\ pc' = "done"
            /\ out' = ResultsOnError(results)
            /\ UNCHANGED <<results, todo>>
       ELSE \E o \in ValidateOutcomes(t) :
            LET hasKey == PgHasPrimaryKey(src, t, o = "haspk")
                ids == GetIncompatibleRowIDsAndColumns(src, src[t], dst[t], t, o)
                cnt == GetIncompatibleRowCount(src[t], dst[t], o)
                failure ==
                    IF hasKey.err # "nil"
                    THEN "failed to get primary key from source table"
                    ELSE IF hasKey.has /\ ids.err # "nil"
                    THEN "failed getting incompatible row ids"
                    ELSE IF ~hasKey.has /\ cnt.err # "nil"
                    THEN "failed getting incompatible row count"
                    ELSE "nil"
            IN  IF failure # "nil"
                THEN /\ ret' = failure
                     /\ pc' = "done"
                     /\ out' = ResultsOnError(results)
                     /\ UNCHANGED <<results, todo>>
                ELSE /\ results' = Append(results,
                          IF hasKey.has
                          THEN [TableName |-> t,
                                IncompatibleRowIDs |-> ids.rowIDs,
                                IncompatibleRowCount |-> Len(ids.rowIDs),
                                IncompatibleColumnMetadata |-> ids.meta]
                          ELSE [TableName |-> t,
                                IncompatibleRowIDs |-> <<>>,
                                IncompatibleRowCount |-> cnt.count,
                                IncompatibleColumnMetadata |-> cnt.meta])
                     /\ todo' = todo \ {t}
                     /\ UNCHANGED <<pc, ret, out>>
    /\ UNCHANGED <<inputVars, columnVars, lookupVars, dst, run, rows, cursor, dstIDs,
                   recordsInserted, err, trace, dst0, first>>

\* "return results, nil" once the range over the tables is exhausted.
ValidateReturn ==
    /\ op = "Validate"
    /\ pc = "tables"
    /\ todo = {}
    /\ ret' = "nil"
    /\ out' = results
    /\ pc' = "done"
    /\ UNCHANGED <<inputVars, columnVars, lookupVars, dst, run, todo, cur, rows, cursor,
                   dstIDs, recordsInserted, err, trace, dst0, first, results>>

NextValidate ==
    \/ ValidateStart
    \/ \E t \in TableNames : ValidateSkipIgnored(t)
    \/ \E t \in TableNames : ValidateTable(t)
    \/ ValidateReturn

\* Declared widths of the validated columns: 0 is unbounded.  A source
\* value is never longer than a bounded source column.
SrcWidths == {0, 6}

DstWidths == {0, 5}

\* The texts of validated rows: one that fits every width, one of 6 characters.
Texts == {Text(1), Text(6)}

\* Source rows of table "a" for Validate: distinct keys, at most MaxRows rows.
ValidateRowsA ==
    {rs \in UNION {[1..n -> Texts \X (Texts \cup {Null})] : n \in 0..MaxRows} :
        \A i, j \in DOMAIN rs : i # j => rs[i][1] # rs[j][1]}

\* Source rows of table "b" for Validate: a text or NULL, and a whole-second time.
ValidateRowsB ==
    UNION {[1..n -> (Texts \cup {Null}) \X {Time(Second)}] : n \in 0..MaxRows}

\* The destination's table for a source table: with the same columns, with
\* one column more, or none.
Shapes == {"same", "extra", "absent"}

Shaped(store, t, shape) ==
    CASE shape = "absent" -> [u \in DOMAIN store \ {t} |-> store[u]]
      [] shape = "extra" ->
            [store EXCEPT ![t].Columns = Append(@, Column("x", 0))]
      [] OTHER -> store

\* Stores Validate runs on: one table varies in widths, rows and shape, the
\* other holds one source row in unbounded columns.  InitValidate keeps the
\* stores whose source rows fit their columns.
ValidateInputs ==
    {[src |-> Store(TableA(rs, sw), TableB(<<<<Text(1), Time(Second)>>>>, NoWidths)),
      dst |-> Shaped(Store(TableA(<<>>, dw), TableB(<<>>, NoWidths)), "a", shape)]
        : sw \in SrcWidths \X SrcWidths, dw \in DstWidths \X DstWidths,
          shape \in Shapes, rs \in ValidateRowsA}
    \cup
    {[src |-> Store(TableA(<<<<Text(1), Text(1)>>>>, NoWidths), TableB(rs, <<sw, 0>>)),
      dst |-> Shaped(Store(TableA(<<>>, NoWidths), TableB(<<>>, dw)), "b", shape)]
        : sw \in SrcWidths, dw \in DstWidths \X DstWidths,
          shape \in Shapes, rs \in ValidateRowsB}

\* The rows of a store fit its bounded columns.
RowsFit(store) ==
    \A t \in DOMAIN store : \A j \in DOMAIN store[t].rows :
        \A i \in DOMAIN store[t].Columns :
            \/ store[t].Columns[i].MaxChars = 0
            \/ TextLen(store[t].rows[j][i]) <= store[t].Columns[i].MaxChars

InitValidate ==
    /\ op = "Validate"
    /\ \E in \in {x \in ValidateInputs : RowsFit(x.src)} :
            src = in.src /\ dst = in.dst
    /\ config \in [IgnoreTables : SUBSET TableNames]
    /\ truncateFirst = FALSE
    /\ pc = "start"
    /\ dst0 = dst
    /\ Idle
    /\ c = Column("", 0) /\ other = Column("", 0) /\ compat = <<>>
    /\ NoLookup

\* ------------------------------------------------------------ Compatible
InitColumn ==
    /\ op = "Compatible"
    /\ src = <<>> /\ dst = <<>>
    /\ config = [IgnoreTables |-> {}]
    /\ truncateFirst = FALSE
    /\ pc = "start"
    /\ dst0 = dst
    /\ Idle
    /\ c \in {Column("d", w) : w \in 0..MaxWidth}
    /\ other \in {Column("s", w) : w \in 0..MaxWidth}
    /\ compat = <<>>
    /\ NoLookup

\* A call of c.Compatible(other) and of c.Incompatible(other).
CallCompatible ==
    /\ op = "Compatible"
    /\ pc = "start"
    /\ compat' = <<Compatible(c, other), Incompatible(c, other)>>
    /\ pc' = "done"
    /\ UNCHANGED <<inputVars, dst, run, todo, cur, rows, cursor, dstIDs,
                   recordsInserted, err, ret, trace, dst0, first, results, out,
                   c, other, lookupVars>>

\* ------------------------------------------------------------ primary keys
\* The column a table's primary-key constraint names, "" for none.
KeyNames == {"", "id", "v", "at"}

Adapters == {"postgres", "mysql"}

\* A catalog of two tables, an adapter opened on it, and one table to look up.
InitKey ==
    /\ op = "PrimaryKey"
    /\ src \in [TableNames -> [pk : KeyNames]]
    /\ dst = <<>>
    /\ config = [IgnoreTables |-> {}]
    /\ truncateFirst = FALSE
    /\ pc = "start"
    /\ dst0 = dst
    /\ todo = {} /\ rows = <<>> /\ cursor = 1 /\ dstIDs = <<>>
    /\ recordsInserted = 0 /\ err = "nil" /\ ret = "none" /\ trace = <<>>
    /\ run = 1 /\ results = <<>> /\ out = <<>>
    /\ first = [ran |-> FALSE, dst |-> dst, insertFailed |-> FALSE]
    /\ cur \in TableNames
    /\ c = Column("", 0) /\ other = Column("", 0) /\ compat = <<>>
    /\ adapter \in Adapters
    /\ lookupFails \in BOOLEAN
    /\ lookup = <<>>

\* A call of GetPrimaryKey(cur) and of HasPrimaryKey(cur) on the adapter.
CallPrimaryKey ==
    /\ op = "PrimaryKey"
    /\ pc = "start"
    /\ lookup' = IF adapter = "mysql"
                 THEN [get |-> MyGetPrimaryKey(src, cur, lookupFails),
                       has |-> MyHasPrimaryKey(src, cur, lookupFails)]
                 ELSE [get |-> PgGetPrimaryKey(src, cur, lookupFails),
                       has |-> PgHasPrimaryKey(src, cur, lookupFails)]
    /\ pc' = "done"
    /\ UNCHANGED <<inputVars, columnVars, dst, run, todo, cur, rows, cursor,
                   dstIDs, recordsInserted, err, ret, trace, dst0, first,
                   results, out, adapter, lookupFails>>

\* ------------------------------------------------------------ specifications
Init == InitMigrate \/ InitValidate

Next == NextMigrate \/ NextValidate

\* One Validate or one Migrate.
Spec == Init /\ [][Next]_vars

\* Migrate, and a second Migrate after a first that returned no error.
SpecRerun == InitMigrate /\ [][NextMigrate \/ Rerun]_vars

\* The column rule on every pair of widths.
SpecColumn == InitColumn /\ [][CallCompatible]_vars

\* The primary-key lookups of both adapters on every catalog.
SpecKey == InitKey /\ [][CallPrimaryKey]_vars

\* ------------------------------------------------------------ properties
\* Helpers of the properties below.
Events(e) == {i \in DOMAIN trace : trace[i].ev = e}

TableEvents(e, t) == {i \in DOMAIN trace : trace[i].ev = e /\ trace[i].table = t}

Ignored == config.IgnoreTables

\* Every table Migrate has to process has reported TableMigrationDidFinish.
Completed ==
    \A t \in DOMAIN src \ Ignored : TableEvents("TableMigrationDidFinish", t) # {}

DisableSucceeded ==
    \E i \in Events("DisableConstraints") : trace[i].n = 1

\* C5: d.Compatible(s) is true exactly when both widths are 0, or both are
\* nonzero and d's is strictly less than s's; it is false when exactly one
\* width is 0 and when the nonzero widths are equal; Incompatible is its
\* negation.
C5_CompatibleRule ==
    (op = "Compatible" /\ pc = "done") =>
        LET d == c.MaxChars
            w == other.MaxChars
        IN  /\ compat[1] = ((d = 0 /\ w = 0) \/ (d > 0 /\ w > 0 /\ d < w))
            /\ ((d = 0) # (w = 0)) => ~compat[1]
            /\ (d > 0 /\ d = w) => ~compat[1]
            /\ compat[2] = ~compat[1]

\* C5 witness: a destination width below the source width was found
\* compatible.
C5_Witness ==
    /\ op = "Compatible" /\ pc = "done"
    /\ c.MaxChars = 5 /\ other.MaxChars = 10
    /\ compat = <<TRUE, FALSE>>

\* C6: once DisableConstraints has succeeded, Migrate returns only after
\* exactly one EnableConstraints, directly preceded by the only
\* WillEnableConstraints and directly followed, as the last event, by
\* EnableConstraintsDidFinish when it succeeded and by
\* EnableConstraintsDidFailWithError when it failed; before the return
\* statement none of these events exists.
C6_EnableAlwaysRuns ==
    (op = "Migrate" /\ DisableSucceeded) =>
        /\ pc = "done" =>
            /\ Cardinality(Events("EnableConstraints")) = 1
            /\ Cardinality(Events("WillEnableConstraints")) = 1
            /\ Cardinality(Events("EnableConstraintsDidFinish")
                           \cup Events("EnableConstraintsDidFailWithError")) = 1
            /\ LET n == Len(trace)
               IN  /\ trace[n - 2].ev = "WillEnableConstraints"
                   /\ trace[n - 1].ev = "EnableConstraints"
                   /\ trace[n].ev = IF trace[n - 1].n = 1
                                    THEN "EnableConstraintsDidFinish"
                                    ELSE "EnableConstraintsDidFailWithError"
        /\ pc \notin {"done"} =>
            Events("EnableConstraints") \cup Events("WillEnableConstraints")
                \cup Events("EnableConstraintsDidFinish")
                \cup Events("EnableConstraintsDidFailWithError") = {}

\* C6 witness: Migrate returned an error of a table step and the
\* constraints were enabled again.
C6_Witness ==
    /\ op = "Migrate" /\ pc = "done"
    /\ ret = "failed creating prepared statement"
    /\ \E i \in Events("EnableConstraints") : trace[i].n = 1

\* C7: the value Migrate returns is the one of its return statement: nil
\* exactly when every table was processed to its TableMigrationDidFinish,
\* the error of the failed step otherwise, whatever EnableConstraints
\* answered; a failed EnableConstraints shows only as
\* EnableConstraintsDidFailWithError.
C7_EnableFailureNotEscalated ==
    (op = "Migrate" /\ pc = "done" /\ DisableSucceeded) =>
        /\ Completed <=> ret = "nil"
        /\ ~Completed =>
            ret \in {StepError(o) : o \in {"truncate", "prepare", "haspk", "getpk", "selectrows"}}
        /\ (\E i \in Events("EnableConstraints") : trace[i].n = 0) =>
            trace[Len(trace)].ev = "EnableConstraintsDidFailWithError"

\* C7 witness: every table was migrated, EnableConstraints failed, and
\* Migrate returned nil.
C7_Witness ==
    /\ op = "Migrate" /\ pc = "done" /\ Completed /\ Ignored = {}
    /\ ret = "nil"
    /\ \E i \in Events("EnableConstraints") : trace[i].n = 0

\* The insert attempts of table t, in order.
Attempts(t) == TableEvents("Insert", t)

\* C2: for the source table with a primary key being migrated, every insert
\* attempt is for a source row whose key is not among the keys the
\* destination table held when the table's migration started, no row is
\* attempted twice, and once the table has finished every such row was
\* attempted; a source row whose key the destination held is never
\* attempted, whatever its other columns.
C2_PrimaryKeyStrategy ==
    (op = "Migrate" /\ cur # "" /\ src[cur].pk # "") =>
        LET k == GetColumn(src[cur], src[cur].pk)
            kd == GetColumn(dst0[cur], src[cur].pk)
            startKeys == {dst0[cur].rows[j][kd] : j \in DOMAIN dst0[cur].rows}
            toMigrate == {r \in {src[cur].rows[j] : j \in DOMAIN src[cur].rows} :
                            r[k] \notin startKeys}
        IN  /\ \A i \in Attempts(cur) : trace[i].row \in toMigrate
            /\ \A i, j \in Attempts(cur) : i # j => trace[i].row # trace[j].row
            /\ TableEvents("TableMigrationDidFinish", cur) # {} =>
                  {trace[i].row : i \in Attempts(cur)} = toMigrate

\* C2 witness: the destination held keys 1 and 2 with other values than the
\* source, the source holds keys 1, 2 and 3, and the finished migration of
\* the table attempted the row of key 3 alone.
C2_Witness ==
    /\ op = "Migrate" /\ cur = "a"
    /\ TableEvents("TableMigrationDidFinish", "a") # {}
    /\ dst0["a"].rows = <<<<Text(1), Text(2)>>, <<Text(2), Text(2)>>>>
    /\ src["a"].rows = <<<<Text(1), Text(1)>>, <<Text(2), Text(1)>>, <<Text(3), Text(1)>>>>
    /\ {trace[i].row : i \in Attempts("a")} = {<<Text(3), Text(1)>>}

\* What a finished table reported against what was inserted, and how far
\* its row loop went.
C8_Counts ==
    op = "Migrate" =>
        /\ \A i \in Events("TableMigrationDidFinish") :
              trace[i].n = Cardinality({j \in Attempts(trace[i].table) : trace[j].n = 1})
        /\ (cur # "" /\ TableEvents("TableMigrationDidFinish", cur) # {}) =>
              IF src[cur].pk # "" THEN Cardinality(Attempts(cur)) = Len(rows)
              ELSE Cardinality(TableEvents("Exists", cur)) = Len(src[cur].rows)

\* A step whose last statement is a failed insert.
InsertFailedStep ==
    /\ Len(trace') > Len(trace)
    /\ trace'[Len(trace')].ev = "Insert"
    /\ trace'[Len(trace')].n = 0

\* C8: an insert that fails (an error, or no row affected) stores nothing
\* and is not counted, Migrate stays in the row loop with no error to return
\* and moves to the next row; a finished table has had every row of its loop
\* examined and reports as rowsInserted the number of its inserts that
\* succeeded.
C8_InsertFailureRecoverable ==
    /\ []C8_Counts
    /\ [][InsertFailedStep =>
            /\ pc' = "rows" /\ ret' = "none"
            /\ cursor' = cursor + 1
            /\ dst' = dst
            /\ recordsInserted' = recordsInserted]_vars

\* C8 witness: Migrate returned nil although an insert of table "a" had
\* failed before another succeeded, and the table reported one row.
C8_Witness ==
    /\ op = "Migrate" /\ pc = "done" /\ ret = "nil"
    /\ \E i, j \in Attempts("a") : i < j /\ trace[i].n = 0 /\ trace[j].n = 1
    /\ \E i \in TableEvents("TableMigrationDidFinish", "a") : trace[i].n = 1

\* A row without any sub-second part.
SubSecondFree(row) ==
    \A i \in DOMAIN row : row[i].kind = "time" => row[i].val % Second = 0

\* The row with every time cut to its whole seconds.
WholeSeconds(row) ==
    [i \in DOMAIN row |->
        IF row[i].kind = "time" THEN Time((row[i].val \div Second) * Second)
        ELSE row[i]]

\* The indices in trace of the answered existence checks of table t, in order:
\* the k-th is the check of the k-th source row.
Checks(t) == SeqOfSet(TableEvents("Exists", t))

\* The check at index i of trace was followed by an insert that succeeded.
InsertedAfter(i) ==
    /\ i + 1 \in DOMAIN trace
    /\ trace[i + 1].ev = "Insert" /\ trace[i + 1].n = 1

\* C9: in the strategy without primary key every existence check and every
\* insert carries the source row with its times truncated to whole seconds,
\* never a sub-second part; and of two source rows that differ only in the
\* sub-second part of a time, once the first was inserted the second is
\* found to exist and is not inserted.
C9_TimestampTruncation ==
    (op = "Migrate" /\ cur # "" /\ src[cur].pk = "") =>
        LET ck == Checks(cur)
        IN  /\ \A i \in TableEvents("Exists", cur) \cup Attempts(cur) :
                  SubSecondFree(trace[i].row)
            /\ \A k \in DOMAIN ck :
                  trace[ck[k]].row = WholeSeconds(src[cur].rows[k])
            /\ \A k1, k2 \in DOMAIN ck :
                  (/\ k1 < k2
                   /\ src[cur].rows[k1] # src[cur].rows[k2]
                   /\ WholeSeconds(src[cur].rows[k1]) = WholeSeconds(src[cur].rows[k2])
                   /\ InsertedAfter(ck[k1]))
                  => /\ trace[ck[k2]].n = 1
                     /\ ~(ck[k2] + 1 \in DOMAIN trace /\ trace[ck[k2] + 1].ev = "Insert")

\* C9 witness: the source rows (NULL, 1.5 s) and (NULL, 1 s) of a table
\* without primary key, the first inserted as (NULL, 1 s), the second found
\* to exist, and the table finished with one row inserted.
C9_Witness ==
    /\ op = "Migrate" /\ cur = "b"
    /\ src["b"].rows = <<<<Null, Time(Second + 500)>>, <<Null, Time(Second)>>>>
    /\ dst0["b"].rows = <<>>
    /\ {trace[i].row : i \in {j \in Attempts("b") : trace[j].n = 1}} = {<<Null, Time(Second)>>}
    /\ \E i \in TableEvents("TableMigrationDidFinish", "b") : trace[i].n = 1

\* C10: Validate holds and returns no result for an ignored table and does
\* not fail at one, and a Validate that succeeded returns exactly one result
\* for every source table that is not ignored; Migrate sends no statement
\* to the destination and no watcher event for an ignored table and leaves
\* its destination rows as they were.
C10_IgnoreList ==
    /\ op = "Validate" =>
        /\ \A i \in DOMAIN results : results[i].TableName \notin Ignored
        /\ \A i \in DOMAIN out : out[i].TableName \notin Ignored
        /\ (pc = "done" /\ ret \notin {"nil", "failed to build source schema",
                                       "failed to build destination schema"})
              => cur \notin Ignored
        /\ (pc = "done" /\ ret = "nil") =>
              /\ \A t \in DOMAIN src \ Ignored :
                    Cardinality({i \in DOMAIN out : out[i].TableName = t}) = 1
              /\ Len(out) = Cardinality(DOMAIN src \ Ignored)
    /\ op = "Migrate" =>
        /\ \A i \in DOMAIN trace : trace[i].table \notin Ignored
        /\ \A t \in Ignored : dst[t] = first.dst[t]

\* C10 witness: table "a" is ignored and missing from the destination, and
\* Validate returned nil with the one result of table "b".
C10_Witness ==
    /\ op = "Validate" /\ pc = "done" /\ ret = "nil"
    /\ Ignored = {"a"} /\ "a" \notin DOMAIN dst
    /\ Len(out) = 1 /\ out[1].TableName = "b"

\* Some row of rs equals row r on every column, NULL matching NULL.
HoldsEqual(rs, r) ==
    \E j \in DOMAIN rs : \A i \in DOMAIN r :
        \/ rs[j][i].kind = "null" /\ r[i].kind = "null"
        \/ rs[j][i].kind # "null" /\ r[i].kind # "null" /\ rs[j][i] = r[i]

\* A step of EachMissingRow that examined the source row rows[cursor].
Examines ==
    /\ op = "Migrate" /\ pc = "rows" /\ src[cur].pk = ""
    /\ cursor' = cursor + 1

\* The step called the insert callback.
CallsBack ==
    /\ Len(trace') > Len(trace)
    /\ trace'[Len(trace')].ev = "Insert"

\* C3 as stated: the callback is called for a source row exactly when the
\* destination table holds no row equal to that source row.
C3_Original ==
    [][Examines => (CallsBack <=> ~HoldsEqual(dst[cur].rows, rows[cursor]))]_vars

\* C3 as amended: the callback is called for a source row exactly when the
\* destination table holds no row equal, NULL matching NULL, to the source
\* row with its times truncated to whole seconds, and it is called with
\* that truncated row.
C3_MissingRows ==
    [][Examines =>
        /\ CallsBack <=> ~HoldsEqual(dst[cur].rows, WholeSeconds(rows[cursor]))
        /\ CallsBack => trace'[Len(trace')].row = WholeSeconds(rows[cursor])]_vars

\* C3 witness: the destination held (NULL, 1 s); of the source rows
\* (NULL, 1 s) and (text, 1 s) of the finished table only the second was
\* handed to the callback.
C3_Witness ==
    /\ op = "Migrate" /\ cur = "b"
    /\ TableEvents("TableMigrationDidFinish", "b") # {}
    /\ dst0["b"].rows = <<<<Null, Time(Second)>>>>
    /\ src["b"].rows = <<<<Null, Time(Second)>>, <<Text(1), Time(Second)>>>>
    /\ {trace[i].row : i \in Attempts("b")} = {<<Text(1), Time(Second)>>}
    /\ Cardinality(TableEvents("Exists", "b")) = 2

\* Two stores hold the same rows, each as often, in every table.
SameContents(d1, d2) ==
    \A t \in DOMAIN d1 :
        \A r \in {d1[t].rows[j] : j \in DOMAIN d1[t].rows}
                 \cup {d2[t].rows[j] : j \in DOMAIN d2[t].rows} :
            Cardinality({j \in DOMAIN d1[t].rows : d1[t].rows[j] = r})
                = Cardinality({j \in DOMAIN d2[t].rows : d2[t].rows[j] = r})

C4_LongValuesReported ==
    (op = "Validate" /\ pc = "done" /\ ret = "nil") =>
        \A t \in DOMAIN src \ Ignored :
            \A i \in DOMAIN dst[t].Columns :
                \A j \in DOMAIN src[t].rows :
                    LET col == dst[t].Columns[i]
                        k == GetColumn(src[t], col.Name)
                        res == out[CHOOSE x \in DOMAIN out : out[x].TableName = t]
                    IN  (col.MaxChars = 5 /\ k # 0 /\ TextLen(src[t].rows[j][k]) > 5) =>
                            /\ res.IncompatibleRowCount >= 1
                            /\ \E m \in DOMAIN res.IncompatibleColumnMetadata :
                                  res.IncompatibleColumnMetadata[m].ColumnName = col.Name
                            /\ src[t].pk # "" =>
                                  \E m \in DOMAIN res.IncompatibleRowIDs :
                                      res.IncompatibleRowIDs[m] =
                                          src[t].rows[j][GetColumn(src[t], src[t].pk)].val

\* A source table that is not ignored has no table of its name in the
\* destination schema, or that table has a column the source table lacks.
ShapeError(t) ==
    \/ t \notin DOMAIN dst
    \/ \E i \in DOMAIN dst[t].Columns : GetColumn(src[t], dst[t].Columns[i].Name) = 0

\* C11: when a source table that is not ignored is absent from the
\* destination schema, or its destination table has a column it lacks, a
\* Validate that has returned has returned an error and no results, also
\* when other tables were validated before the failing one.
C11_ShapeErrorsAbort ==
    (op = "Validate" /\ pc = "done" /\ \E t \in DOMAIN src \ Ignored : ShapeError(t)) =>
        /\ ret # "nil"
        /\ out = <<>>

\* C11 witness: table "b" was validated and its result gathered, then
\* table "a", whose destination table has a column more, failed Validate,
\* which returned no results.
C11_Witness ==
    /\ op = "Validate" /\ pc = "done" /\ Ignored = {}
    /\ "a" \in DOMAIN dst /\ ShapeError("a") /\ ~ShapeError("b")
    /\ Len(results) = 1 /\ results[1].TableName = "b"
    /\ ret = "failed getting incompatible row ids"
    /\ out = <<>>

\* C12: on either adapter, for a table without a primary key GetPrimaryKey
\* returns the empty name and no error and HasPrimaryKey returns false and
\* no error; HasPrimaryKey returns true exactly when GetPrimaryKey returns
\* a name that is not empty; and HasPrimaryKey returns an error only when
\* the lookup itself failed.
C12_LookupContract ==
    (op = "PrimaryKey" /\ pc = "done") =>
        /\ (src[cur].pk = "" /\ ~lookupFails) =>
              /\ lookup.get = [name |-> "", err |-> "nil"]
              /\ lookup.has = [has |-> FALSE, err |-> "nil"]
        /\ lookup.has.has <=> lookup.get.name # ""
        /\ lookup.has.err # "nil" => lookupFails

\* The watcher's table events, as against the destination's statements.
TableEventKinds ==
    {"WillTruncateTable", "TruncateTableDidFinish",
     "TableMigrationDidStart", "TableMigrationDidFinish"}

\* The names of the watcher events of table t, in the order they were sent.
WatcherEventsOf(t) ==
    LET sent == SelectSeq(trace, LAMBDA e : e.table = t /\ e.ev \in TableEventKinds)
    IN  [i \in DOMAIN sent |-> sent[i].ev]

\* The order of one table's watcher events.
TableEventOrder ==
    IF truncateFirst
    THEN <<"WillTruncateTable", "TruncateTableDidFinish",
           "TableMigrationDidStart", "TableMigrationDidFinish">>
    ELSE <<"TableMigrationDidStart", "TableMigrationDidFinish">>

IsPrefix(a, b) == Len(a) <= Len(b) /\ \A i \in DOMAIN a : a[i] = b[i]

\* C13: in one run of Migrate WillDisableConstraints is the first event;
\* DidDisableConstraints follows only a DisableConstraints that succeeded,
\* and after one that failed Migrate has returned an error and nothing
\* else happened; every table event, truncate and insert lies after
\* DidDisableConstraints and before WillEnableConstraints; each table's
\* events come in the order WillTruncateTable, TruncateTableDidFinish
\* (only with truncate-first, and before any insert into the table),
\* TableMigrationDidStart, TableMigrationDidFinish, with nothing of
\* another table between them.
C13_EventOrder ==
    op = "Migrate" =>
        /\ trace # <<>> => Events("WillDisableConstraints") = {1}
        /\ Events("DidDisableConstraints") # {} =>
              DisableSucceeded /\ Events("DidDisableConstraints") = {3}
        /\ (\E i \in Events("DisableConstraints") : trace[i].n = 0) =>
              /\ Len(trace) = 2
              /\ pc = "done"
              /\ ret = "failed to disable constraints"
        /\ \A i \in DOMAIN trace : trace[i].table # "" =>
              /\ \E j \in Events("DidDisableConstraints") : j < i
              /\ \A k \in Events("WillEnableConstraints") \cup Events("EnableConstraints") : i < k
        /\ \A t \in TableNames :
              /\ IsPrefix(WatcherEventsOf(t), TableEventOrder)
              /\ \A i \in TableEvents("Insert", t) :
                    /\ \E j \in TableEvents("TableMigrationDidStart", t) : j < i
                    /\ \A j \in TableEvents("TableMigrationDidFinish", t) : i < j
                    /\ truncateFirst =>
                          \E j \in TableEvents("TruncateTableDidFinish", t) : j < i
              /\ \A i \in DOMAIN trace :
                    (trace[i].table = t /\ i < Len(trace) /\ trace[i + 1].table # t) =>
                        \A j \in (i + 1)..Len(trace) : trace[j].table # t

\* C13 witness: a truncate-first run that migrated both tables, inserted a
\* row and enabled the constraints again.
C13_Witness ==
    /\ op = "Migrate" /\ pc = "done" /\ truncateFirst
    /\ Ignored = {} /\ Completed
    /\ \E i \in TableEvents("Insert", "a") : trace[i].n = 1
    /\ \E i \in TableEvents("Insert", "b") : trace[i].n = 1
    /\ Events("EnableConstraints") # {}

\* The violations of table t: the pairs of a destination column that is
\* incompatible with its source column and a source row whose text in that
\* column is longer than the destination column's max width.
ViolatingPairs(t) ==
    {p \in (DOMAIN dst[t].Columns) \X (DOMAIN src[t].rows) :
        LET dc == dst[t].Columns[p[1]]
            k == GetColumn(src[t], dc.Name)
        IN  /\ Incompatible(dc, src[t].Columns[k])
            /\ TextLen(src[t].rows[p[2]][k]) > dc.MaxChars}

\* The place of a violation when they are listed column by column, and
\* within a column in the order the rows are scanned.
PlaceOf(t, p) ==
    1 + Cardinality({q \in ViolatingPairs(t) :
                        q[1] < p[1] \/ (q[1] = p[1] /\ q[2] < p[2])})

\* C14: in every ValidationResult, with or without a primary key,
\* IncompatibleRowCount is the number of (incompatible column, violating
\* source row) pairs, so a row violating in k columns counts k times; with
\* a primary key IncompatibleRowIDs holds the key of each pair's row,
\* column by column in scan order, and without one it is empty; with no
\* incompatible column the count is 0 and there are no identifiers and no
\* column metadata.
C14_ViolationCounting ==
    op = "Validate" =>
        \A i \in DOMAIN results :
            LET r == results[i]
                t == r.TableName
                pairs == ViolatingPairs(t)
            IN  /\ r.IncompatibleRowCount = Cardinality(pairs)
                /\ IF src[t].pk # ""
                   THEN /\ Len(r.IncompatibleRowIDs) = r.IncompatibleRowCount
                        /\ \A p \in pairs :
                              r.IncompatibleRowIDs[PlaceOf(t, p)] =
                                  src[t].rows[p[2]][GetColumn(src[t], src[t].pk)].val
                   ELSE r.IncompatibleRowIDs = <<>>
                /\ GetIncompatibleColumns(src[t], dst[t]).columns = <<>> =>
                      /\ r.IncompatibleRowCount = 0
                      /\ r.IncompatibleRowIDs = <<>>
                      /\ r.IncompatibleColumnMetadata = <<>>

\* C14 witness: with a primary key, the row of key 6 violates in both
\* columns after a row of key 1 that violates in none, and is listed and
\* counted twice.
C14_Witness ==
    /\ op = "Validate"
    /\ \E i \in DOMAIN results :
          /\ results[i].TableName = "a"
          /\ src["a"].rows = <<<<Text(1), Text(1)>>, <<Text(6), Text(6)>>>>
          /\ results[i].IncompatibleRowIDs = <<6, 6>>
          /\ results[i].IncompatibleRowCount = 2

\* C15: in every ValidationResult each IncompatibleColumnMetadata entry
\* names a destination column that is incompatible with its source column
\* and in which some source row violates, no column is named twice, the
\* entry's MaxChars is strictly greater than the destination column's
\* declared max width, and the metadata is non-empty exactly when
\* IncompatibleRowCount > 0.
C15_ResultInvariant ==
    op = "Validate" =>
        \A i \in DOMAIN results :
            LET r == results[i]
                t == r.TableName
                meta == r.IncompatibleColumnMetadata
            IN  /\ \A m \in DOMAIN meta :
                      \E p \in ViolatingPairs(t) :
                          /\ dst[t].Columns[p[1]].Name = meta[m].ColumnName
                          /\ meta[m].MaxChars > dst[t].Columns[p[1]].MaxChars
                /\ \A m, n \in DOMAIN meta :
                      m # n => meta[m].ColumnName # meta[n].ColumnName
                /\ meta # <<>> <=> r.IncompatibleRowCount > 0

\* C15 witness: the 6-character value of column v, declared with width 5
\* in the destination, is reported with MaxChars 6 and counted once.
C15_Witness ==
    /\ op = "Validate" /\ pc = "done" /\ ret = "nil"
    /\ \E i \in DOMAIN out :
          /\ out[i].TableName = "b"
          /\ dst["b"].Columns[1] = Column("v", 5)
          /\ out[i].IncompatibleColumnMetadata = <<[ColumnName |-> "v", MaxChars |-> 6]>>
          /\ out[i].IncompatibleRowCount = 1

====
